---- MODULE Spec2Model ----
(***************************************************************************)
(* Upload moderation and thumbnail lifecycle of level-thumbnails-server.   *)
(*                                                                         *)
(* The state is the `uploads` table of the record store, the two           *)
(* directories of the artifact store (thumbnails/<level>.webp and          *)
(* uploads/<user>_<level>.webp) and, for every request being handled, the  *)
(* position of its handler.  A handler is an async fn: it runs atomically  *)
(* between two awaits on a store, so there is one action per store         *)
(* operation of a handler.  Whatever a handler does before its first       *)
(* access to mutable state (decoding the session, reading the immutable    *)
(* users table) is folded into the action of that first access.            *)
(*                                                                         *)
(* A request that is answered before its handler writes to a store leaves  *)
(* the state as it is and takes no step: its status is given by            *)
(* SubmitAnswer / DecideAnswer, from the state it arrives in.  The same     *)
(* goes for the handlers that only read (the listings of the pending       *)
(* queue, the thumbnail and its info): their response is an operator of    *)
(* the state they read.                                                    *)
(* `last` holds the response of the step just taken, when that step made a *)
(* handler return.                                                         *)
(*                                                                         *)
(* Every store operation may fail (`ok` false).  A failed operation leaves *)
(* its store unchanged.                                                    *)
(***************************************************************************)
EXTENDS Integers, Sequences, FiniteSets, TLC

\* ------------------------------------------------------------------ bounds
\* Submissions that pass validation in one behaviour (each inserts at most
\* one row, so this also bounds the uploads table).
MaxSubmits == 2

\* ------------------------------------------------------------------ domains
\* Level ids a request may name (the {id} of the route).
Levels == {1}
\* users.id of the accounts: a User, a Verified user and a privileged one.
Users == 1 .. 3
\* Request tasks that may be in flight at once.
Procs == {1, 2}
\* What a request body decodes to: a 1920x1080 image, an image of another
\* size, or bytes image::load_from_memory rejects.
Images == {"ok", "bad_size", "garbage"}
\* Form field `reason` of a decision (Option<String>); a row's reason is
\* "none" (NULL) until a decision sets it.
Reasons == {"looks good"}

\* database::Role.
Roles == {"User", "Verified", "Moderator", "Admin"}

\* No file at a path / no value in a nullable column.
NoFile == <<>>
Null == 0

\* webp::Encoder::from_rgb(..).encode_lossless(): the bytes stored for the
\* picture `c`.
EncodeLossless(c) == <<"webp", c>>

VARIABLES
    users,      \* the users table: account_id and role by users.id
    uploads,    \* the uploads table: row i has id i
    thumbnails, \* thumbnails/<level>.webp, per level
    pending,    \* uploads/<user>_<level>.webp, per <<user, level>>
    procs,      \* the request handled by each task and where it stands
    last,       \* the response the latest step returned, if it returned one
    submits     \* submissions encoded so far

vars == <<users, uploads, thumbnails, pending, procs, last, submits>>

\* users.role of user u, as auth_middleware reads it (get_user_by_id).
RoleOf(u) == users[u].role

\* A task that handles no request.
Idle ==
    [pc |-> "idle", op |-> "none", user |-> 0, level |-> 0, data |-> NoFile,
     id |-> 0, owner |-> 0, accept |-> FALSE, reason |-> "none", account |-> 0]

\* The latest step returned nothing.
NoResponse ==
    [op |-> "none", user |-> 0, level |-> 0, data |-> NoFile, id |-> 0,
     accept |-> FALSE, status |-> 0, failed |-> FALSE, purged |-> 0]

\* The handler of request `req` returns status `code`: `failed` says that a
\* store operation of the request failed, `purged` is the level
\* cache_controller::purge was called for (0: not called).
Response(req, code, failed, purged) ==
    [op |-> req.op, user |-> req.user, level |-> req.level, data |-> req.data,
     id |-> req.id, accept |-> req.accept, status |-> code, failed |-> failed,
     purged |-> purged]

\* Task p returns: it is free for the next request.
Return(p, req, code, failed, purged) ==
    /\ procs' = [procs EXCEPT ![p] = Idle]
    /\ last' = Response(req, code, failed, purged)

\* The task that takes the next request: tokio gives it to any free task,
\* and tasks do not differ, so the first free one stands for them all.
Free(p) ==
    /\ procs[p].pc = "idle"
    /\ \A q \in Procs : q < p => procs[q].pc # "idle"

\* Task p goes on to its next store operation.
Goto(p, req, pc) ==
    /\ procs' = [procs EXCEPT ![p] = [req EXCEPT !.pc = pc]]
    /\ last' = NoResponse

\* ------------------------------------------------------------ record store
\* Paths of the artifact store, as the handlers format them.
ThumbnailPath(l) == <<"thumbnails", l>>
PendingPath(u, l) == <<"uploads", u, l>>

\* NOW() of the record store: time advances with every insert.
Now == Len(uploads) + 1

\* uploads.upload_time of a new row.  add_upload binds no value for it, and
\* PendingUpload reads it as a non-null timestamp: it is the column's default,
\* the time of the insert.
DefaultUploadTime == Now

\* add_upload with the accepted branch of the statement lost: an accepted
\* row is inserted without accepted_time and accepted_by.
AddUploadWithoutAcceptedTime(level_id, user_id, image_path, accepted, bytes) ==
    Append(uploads,
           [id |-> Len(uploads) + 1,
            level_id |-> level_id,
            user_id |-> user_id,
            image_path |-> image_path,
            upload_time |-> DefaultUploadTime,
            accepted |-> accepted,
            accepted_time |-> Null,
            accepted_by |-> Null,
            reason |-> "none",
            bytes |-> bytes])

\* Database::add_upload: INSERT INTO uploads.  id and upload_time are the
\* columns' defaults (the next serial, NOW()); an accepted row gets
\* accepted_time = NOW() and accepted_by = user_id, an unaccepted one leaves
\* both NULL.  `bytes` is not a column: it records what the submission wrote.
AddUpload(level_id, user_id, image_path, accepted, bytes) ==
    Append(uploads,
           [id |-> Len(uploads) + 1,
            level_id |-> level_id,
            user_id |-> user_id,
            image_path |-> image_path,
            upload_time |-> DefaultUploadTime,
            accepted |-> accepted,
            accepted_time |-> IF accepted THEN Now ELSE Null,
            accepted_by |-> IF accepted THEN user_id ELSE Null,
            reason |-> "none",
            bytes |-> bytes])

\* Database::accept_upload: UPDATE uploads SET accepted, accepted_time = NOW(),
\* accepted_by, reason WHERE id = $4.
AcceptUpload(id, accepted_by, reason, accept) ==
    [i \in 1 .. Len(uploads) |->
        IF uploads[i].id = id
        THEN [uploads[i] EXCEPT !.accepted = accept,
                                !.accepted_time = Now,
                                !.accepted_by = accepted_by,
                                !.reason = reason]
        ELSE uploads[i]]

\* Database::get_pending_upload: the id of the row WHERE accepted = FALSE AND
\* accepted_time IS NULL AND id = $1; 0 when fetch_one finds no row (Err).
GetPendingUpload(id) ==
    IF \E i \in 1 .. Len(uploads) :
          /\ uploads[i].id = id
          /\ uploads[i].accepted = FALSE
          /\ uploads[i].accepted_time = Null
    THEN id
    ELSE 0

\* Rows WHERE level_id = $1 AND accepted = TRUE.
AcceptedOf(l) ==
    {i \in 1 .. Len(uploads) : uploads[i].level_id = l /\ uploads[i].accepted}

\* ... ORDER BY upload_time DESC LIMIT 1: the id of that row, 0 when none.
ActiveUpload(l) ==
    IF AcceptedOf(l) = {}
    THEN 0
    ELSE CHOOSE i \in AcceptedOf(l) :
            \A j \in AcceptedOf(l) : uploads[j].upload_time <= uploads[i].upload_time

\* Database::get_upload_info: the submitter (JOIN users ON uploads.user_id)
\* of the latest accepted upload of the level; 0 for None.
GetUploadInfo(l) ==
    IF ActiveUpload(l) = 0 THEN 0 ELSE uploads[ActiveUpload(l)].user_id

\* The server starts with three users, of account ids 1 to 3; the
\* privileged one is a Moderator or an Admin.  The handlers of uploads do not
\* write to the users table; login() adds rows to it.
Init ==
    /\ users \in {[u \in Users |->
                    [account_id |-> u,
                     role |-> CASE u = 1 -> "User"
                                [] u = 2 -> "Verified"
                                [] OTHER -> r]] : r \in {"Moderator", "Admin"}}
    /\ uploads = <<>>
    /\ thumbnails = [l \in Levels |-> NoFile]
    /\ pending = [k \in Users \X Levels |-> NoFile]
    /\ procs = [p \in Procs |-> Idle]
    /\ last = NoResponse
    /\ submits = 0

\* ------------------------------------------------------------------ submit
\* The status upload() gives a direct publish: 201 for an Admin or a
\* Moderator, 200 for a Verified user.
PublishedStatus(u) == IF RoleOf(u) \in {"Admin", "Moderator"} THEN 201 ELSE 200

\* The early return taken for role User alone.
HasPendingUserOnly(u, l) ==
    RoleOf(u) = "User" /\ pending[<<u, l>>] # NoFile

\* upload(), the early return: a User or Verified submitter with a file at
\* uploads/<user>_<id>.webp already has a pending thumbnail.
HasPending(u, l) ==
    RoleOf(u) \in {"User", "Verified"} /\ pending[<<u, l>>] # NoFile

\* match user.role with Moderator moved to the arm of Verified.
AfterEncodeModeratorAsVerified(u) ==
    CASE RoleOf(u) = "Admin" -> "force_write"
      [] RoleOf(u) \in {"Moderator", "Verified"} -> "is_image_uploaded"
      [] OTHER -> "pending_write"

\* match user.role with User moved to the arm of Verified.
AfterEncodeUserAsVerified(u) ==
    CASE RoleOf(u) \in {"Admin", "Moderator"} -> "force_write"
      [] OTHER -> "is_image_uploaded"

\* upload(), match user.role: where the handler goes after the encoding.
AfterEncode(u) ==
    CASE RoleOf(u) \in {"Admin", "Moderator"} -> "force_write"
      [] RoleOf(u) = "Verified" -> "is_image_uploaded"
      [] OTHER -> "pending_write"

\* upload(), up to the encoding: the status of a request answered there, 0
\* when the handler goes on.  A submitter who already has a pending
\* thumbnail is answered 409; a body that does not decode, or is not
\* 1920x1080, is answered 400.
SubmitAnswer(u, l, img) ==
    IF HasPending(u, l) THEN 409
    ELSE IF img # "ok" THEN 400
    ELSE 0

\* upload(): the session is decoded and the user read, no early return is
\* taken, the picture is encoded and the role decides what follows.
SubmitStart(p, u, l, img) ==
    /\ Free(p)
    /\ SubmitAnswer(u, l, img) = 0
    /\ submits < MaxSubmits
    /\ Goto(p, [Idle EXCEPT !.op = "submit", !.user = u, !.level = l,
                            !.data = EncodeLossless(submits + 1)],
            AfterEncode(u))
    /\ submits' = submits + 1
    /\ UNCHANGED <<users, uploads, thumbnails, pending>>

\* The Verified arm without its is_image_uploaded test.
VerifiedRouteAlwaysPublish(l) == "force_write"

\* upload(), the Verified arm: publish when is_image_uploaded(id) finds no
\* file at the level's canonical path, else fall through to add_to_pending.
VerifiedRoute(l) ==
    IF thumbnails[l] # NoFile THEN "pending_write" ELSE "force_write"

\* is_image_uploaded(), for a Verified submitter.
IsImageUploaded(p) ==
    /\ procs[p].pc = "is_image_uploaded"
    /\ Goto(p, procs[p], VerifiedRoute(procs[p].level))
    /\ UNCHANGED <<users, uploads, thumbnails, pending, submits>>

\* force_save() going on to add_upload although its write failed.
ForceWriteIgnoringFailure(p, ok) ==
    /\ procs[p].pc = "force_write"
    /\ thumbnails' = IF ok THEN [thumbnails EXCEPT ![procs[p].level] = procs[p].data]
                     ELSE thumbnails
    /\ Goto(p, procs[p], "force_insert")
    /\ UNCHANGED <<users, uploads, pending, submits>>

\* force_save(), first half: tokio::fs::write to thumbnails/<id>.webp.
ForceWrite(p, ok) ==
    /\ procs[p].pc = "force_write"
    /\  IF ok
        THEN /\ thumbnails' = [thumbnails EXCEPT ![procs[p].level] = procs[p].data]
             /\ Goto(p, procs[p], "force_insert")
        ELSE /\ Return(p, procs[p], 500, TRUE, 0)
             /\ UNCHANGED thumbnails
    /\ UNCHANGED <<users, uploads, pending, submits>>

\* force_save() without its cache_controller::purge.
ForceInsertWithoutPurge(p, ok) ==
    /\ procs[p].pc = "force_insert"
    /\  IF ok
        THEN /\ uploads' = AddUpload(procs[p].level, procs[p].user,
                                     ThumbnailPath(procs[p].level), TRUE, procs[p].data)
             /\ Return(p, procs[p], PublishedStatus(procs[p].user), FALSE, 0)
        ELSE /\ Return(p, procs[p], 500, TRUE, 0)
             /\ UNCHANGED uploads
    /\ UNCHANGED <<users, thumbnails, pending, submits>>

\* force_save() removing the file it wrote when add_upload fails.
ForceInsertRollingBack(p, ok) ==
    /\ procs[p].pc = "force_insert"
    /\  IF ok
        THEN /\ uploads' = AddUpload(procs[p].level, procs[p].user,
                                     ThumbnailPath(procs[p].level), TRUE, procs[p].data)
             /\ Return(p, procs[p], PublishedStatus(procs[p].user), FALSE,
                       procs[p].level)
             /\ UNCHANGED thumbnails
        ELSE /\ Return(p, procs[p], 500, TRUE, 0)
             /\ thumbnails' = [thumbnails EXCEPT ![procs[p].level] = NoFile]
             /\ UNCHANGED uploads
    /\ UNCHANGED <<users, pending, submits>>

\* force_save(), second half: add_upload(.., accepted = true), and on
\* success cache_controller::purge(id).
ForceInsert(p, ok) ==
    /\ procs[p].pc = "force_insert"
    /\  IF ok
        THEN /\ uploads' = AddUpload(procs[p].level, procs[p].user,
                                     ThumbnailPath(procs[p].level), TRUE, procs[p].data)
             /\ Return(p, procs[p], PublishedStatus(procs[p].user), FALSE,
                       procs[p].level)
        ELSE /\ Return(p, procs[p], 500, TRUE, 0)
             /\ UNCHANGED uploads
    /\ UNCHANGED <<users, thumbnails, pending, submits>>

\* add_to_pending(), first half: tokio::fs::write to
\* uploads/<user>_<id>.webp.
PendingWrite(p, ok) ==
    /\ procs[p].pc = "pending_write"
    /\  IF ok
        THEN /\ pending' = [pending EXCEPT ![<<procs[p].user, procs[p].level>>] = procs[p].data]
             /\ Goto(p, procs[p], "pending_insert")
        ELSE /\ Return(p, procs[p], 500, TRUE, 0)
             /\ UNCHANGED pending
    /\ UNCHANGED <<users, uploads, thumbnails, submits>>

\* add_to_pending() answering 202 without its add_upload.
PendingInsertWithoutRow(p, ok) ==
    /\ procs[p].pc = "pending_insert"
    /\ Return(p, procs[p], IF ok THEN 202 ELSE 500, ~ok, 0)
    /\ UNCHANGED <<users, uploads, thumbnails, pending, submits>>

\* add_to_pending(), second half: add_upload(.., accepted = false).
PendingInsert(p, ok) ==
    /\ procs[p].pc = "pending_insert"
    /\  IF ok
        THEN /\ uploads' = AddUpload(procs[p].level, procs[p].user,
                                     PendingPath(procs[p].user, procs[p].level),
                                     FALSE, procs[p].data)
             /\ Return(p, procs[p], 202, FALSE, 0)
        ELSE /\ Return(p, procs[p], 500, TRUE, 0)
             /\ UNCHANGED uploads
    /\ UNCHANGED <<users, thumbnails, pending, submits>>

\* ------------------------------------------------------------------ decide
\* The role check refusing role User alone.
MayDecideUnlessUser(m) == RoleOf(m) # "User"

\* pending_action(), the role check.
MayDecide(m) == RoleOf(m) \in {"Moderator", "Admin"}

\* pending_action(), up to the first artifact operation: the status of a
\* request answered there, 0 when the handler goes on.  The caller must be a
\* Moderator or an Admin (403); get_pending_upload(id) must return a row
\* (404 on Err, which is also what a failed query gives, `dbok` false); a
\* row read as accepted is answered 409.
DecideAnswer(m, id, dbok) ==
    LET got == IF dbok THEN GetPendingUpload(id) ELSE 0 IN
    IF ~MayDecide(m) THEN 403
    ELSE IF got = 0 THEN 404
    ELSE IF uploads[got].accepted THEN 409
    ELSE 0

\* pending_action(): no early return is taken (the query succeeded and gave
\* a row), and the artifact of the row read (upload.user_id,
\* upload.level_id) is about to be renamed or removed.
DecideStart(p, m, id, accept, reason) ==
    /\ Free(p)
    /\ DecideAnswer(m, id, TRUE) = 0
    /\ Goto(p, [Idle EXCEPT !.op = "decide", !.user = m, !.id = id,
                            !.accept = accept, !.reason = reason,
                            !.owner = uploads[id].user_id,
                            !.level = uploads[id].level_id],
            IF accept THEN "rename" ELSE "remove_file")
    /\ UNCHANGED <<users, uploads, thumbnails, pending, submits>>

\* accept: tokio::fs::rename(uploads/<user>_<level>.webp,
\* thumbnails/<level>.webp).  It fails when the pending file is gone.
DecideRename(p, ok) ==
    /\ procs[p].pc = "rename"
    /\ LET old == <<procs[p].owner, procs[p].level>> IN
        IF ok /\ pending[old] # NoFile
        THEN /\ thumbnails' = [thumbnails EXCEPT ![procs[p].level] = pending[old]]
             /\ pending' = [pending EXCEPT ![old] = NoFile]
             /\ Goto(p, procs[p], "accept_upload")
        ELSE /\ Return(p, procs[p], 500, TRUE, 0)
             /\ UNCHANGED <<thumbnails, pending>>
    /\ UNCHANGED <<users, uploads, submits>>

\* reject going on to accept_upload although remove_file failed.
DecideRemoveIgnoringFailure(p, ok) ==
    /\ procs[p].pc = "remove_file"
    /\ LET old == <<procs[p].owner, procs[p].level>> IN
        pending' = IF ok THEN [pending EXCEPT ![old] = NoFile] ELSE pending
    /\ Goto(p, procs[p], "accept_upload")
    /\ UNCHANGED <<users, uploads, thumbnails, submits>>

\* reject: tokio::fs::remove_file(uploads/<user>_<level>.webp).
DecideRemove(p, ok) ==
    /\ procs[p].pc = "remove_file"
    /\ LET old == <<procs[p].owner, procs[p].level>> IN
        IF ok /\ pending[old] # NoFile
        THEN /\ pending' = [pending EXCEPT ![old] = NoFile]
             /\ Goto(p, procs[p], "accept_upload")
        ELSE /\ Return(p, procs[p], 500, TRUE, 0)
             /\ UNCHANGED pending
    /\ UNCHANGED <<users, uploads, thumbnails, submits>>

\* The decision answering 200 and purging although accept_upload failed.
DecideUpdateIgnoringFailure(p, ok) ==
    /\ procs[p].pc = "accept_upload"
    /\ uploads' = IF ok THEN AcceptUpload(procs[p].id, procs[p].user,
                                          procs[p].reason, procs[p].accept)
                  ELSE uploads
    /\ Return(p, procs[p], 200, FALSE,
              IF procs[p].accept THEN procs[p].level ELSE 0)
    /\ UNCHANGED <<users, thumbnails, pending, submits>>

\* The decision purging after a rejection as well.
DecideUpdatePurgingAlways(p, ok) ==
    /\ procs[p].pc = "accept_upload"
    /\  IF ok
        THEN /\ uploads' = AcceptUpload(procs[p].id, procs[p].user,
                                        procs[p].reason, procs[p].accept)
             /\ Return(p, procs[p], 200, FALSE, procs[p].level)
        ELSE /\ Return(p, procs[p], 500, TRUE, 0)
             /\ UNCHANGED uploads
    /\ UNCHANGED <<users, thumbnails, pending, submits>>

\* accept_upload(upload.id, user.id, reason, accepted); after an accept,
\* cache_controller::purge(upload.level_id).
DecideUpdate(p, ok) ==
    /\ procs[p].pc = "accept_upload"
    /\  IF ok
        THEN /\ uploads' = AcceptUpload(procs[p].id, procs[p].user,
                                        procs[p].reason, procs[p].accept)
             /\ Return(p, procs[p], 200, FALSE,
                       IF procs[p].accept THEN procs[p].level ELSE 0)
        ELSE /\ Return(p, procs[p], 500, TRUE, 0)
             /\ UNCHANGED uploads
    /\ UNCHANGED <<users, thumbnails, pending, submits>>

\* ------------------------------------------------------------------- reads
\* enum PendingFilter.
All == [kind |-> "All", arg |-> 0]
ByLevel(l) == [kind |-> "ByLevel", arg |-> l]
ByUser(u) == [kind |-> "ByUser", arg |-> u]
PendingFilters ==
    {All} \cup {ByLevel(l) : l \in Levels} \cup {ByUser(u) : u \in Users}

\* The role check with Verified let through.
ListForbiddenUserRoleOnly(caller, filter) ==
    \/ RoleOf(caller) = "User"
    \/ filter = ByUser(caller)

\* get_pending_uploads(), the check after authentication: the caller is
\* refused when (role != Moderator && role != Admin) || filter ==
\* ByUser(user.id).
ListForbidden(caller, filter) ==
    \/ (RoleOf(caller) # "Moderator" /\ RoleOf(caller) # "Admin")
    \/ filter = ByUser(caller)

\* The queries without their accepted_time IS NULL.
PendingMatchingNotAccepted(filter) ==
    {i \in 1 .. Len(uploads) :
        /\ uploads[i].accepted = FALSE
        /\ CASE filter.kind = "ByLevel" -> uploads[i].level_id = filter.arg
             [] filter.kind = "ByUser" -> uploads[i].user_id = filter.arg
             [] OTHER -> TRUE}

\* Database::get_pending_uploads, _for_level, _for_user: the rows WHERE
\* accepted = FALSE AND accepted_time IS NULL, and level_id = $1 or
\* user_id = $1 for the filtered ones.
PendingMatching(filter) ==
    {i \in 1 .. Len(uploads) :
        /\ uploads[i].accepted = FALSE
        /\ uploads[i].accepted_time = Null
        /\ CASE filter.kind = "ByLevel" -> uploads[i].level_id = filter.arg
             [] filter.kind = "ByUser" -> uploads[i].user_id = filter.arg
             [] OTHER -> TRUE}

\* ... ORDER BY upload_time DESC: the rows of S, latest first.
OrderByUploadTimeDesc(S) ==
    CHOOSE s \in [1 .. Cardinality(S) -> S] :
        \A a, b \in 1 .. Cardinality(S) :
            a < b => uploads[s[a]].upload_time > uploads[s[b]].upload_time

\* get_pending_uploads(): 403 from the role check, 500 when the query fails
\* (`dbok` false), else 200 with the rows the query returns.
GetPendingUploads(caller, filter, dbok) ==
    IF ListForbidden(caller, filter) THEN [status |-> 403, rows |-> <<>>]
    ELSE IF ~dbok THEN [status |-> 500, rows |-> <<>>]
    ELSE [status |-> 200, rows |-> OrderByUploadTimeDesc(PendingMatching(filter))]

\* enum Res.
Resolutions == {"high", "medium", "small"}

\* What handle_image sends for a file: the file as it is for Res::High, the
\* picture resized and encoded again for the others.
Rendered(file, res) == IF res = "high" THEN file ELSE <<file, res>>

\* handle_image without its get_upload_info test: the file is served whenever
\* it exists.
HandleImageWithoutRecord(l, res, dbok) ==
    IF thumbnails[l] = NoFile
    THEN [status |-> 404, body |-> NoFile, author |-> 0]
    ELSE [status |-> 200, body |-> Rendered(thumbnails[l], res),
          author |-> IF dbok THEN GetUploadInfo(l) ELSE 0]

\* routes/thumbnail.rs, handle_image: 404 when thumbnails/<id>.webp does not
\* exist, 404 when get_upload_info gives None (no accepted row, or the query
\* failed: `.ok()?`), else the file with the submitter in the headers.
HandleImage(l, res, dbok) ==
    LET upload == IF dbok THEN GetUploadInfo(l) ELSE 0 IN
    IF thumbnails[l] = NoFile THEN [status |-> 404, body |-> NoFile, author |-> 0]
    ELSE IF upload = 0 THEN [status |-> 404, body |-> NoFile, author |-> 0]
    ELSE [status |-> 200, body |-> Rendered(thumbnails[l], res), author |-> upload]

\* The file the artifact store holds at a path a row names.
FileAt(path) ==
    IF path[1] = "thumbnails" THEN thumbnails[path[2]]
    ELSE pending[<<path[2], path[3]>>]

\* main.rs, handle_image: 404 when get_upload_info gives None, 404 when there
\* is no file at the row's image_path, else that file.
HandleImageMain(l, res, dbok) ==
    LET upload == IF dbok THEN ActiveUpload(l) ELSE 0 IN
    IF upload = 0 THEN [status |-> 404, body |-> NoFile, author |-> 0]
    ELSE IF FileAt(uploads[upload].image_path) = NoFile
         THEN [status |-> 404, body |-> NoFile, author |-> 0]
    ELSE [status |-> 200, body |-> Rendered(FileAt(uploads[upload].image_path), res),
          author |-> uploads[upload].user_id]

\* thumbnail_info_handler: 404 when get_upload_extended gives None, else the
\* latest accepted row of the level (submitter, upload_time, accepted_by).
ThumbnailInfoHandler(l, dbok) ==
    LET upload == IF dbok THEN ActiveUpload(l) ELSE 0 IN
    IF upload = 0 THEN [status |-> 404, author |-> 0, accepted_by |-> Null]
    ELSE [status |-> 200, author |-> uploads[upload].user_id,
          accepted_by |-> uploads[upload].accepted_by]

\* ------------------------------------------------------------ specification
\* Upload ids a decision may name: every row, and one id no row has.
Ids == 1 .. MaxSubmits + 1

\* No request is being handled.
Quiescent == \A p \in Procs : procs[p].pc = "idle"

\* A request arrives and its handler runs up to its first store write.
Arrive ==
    \/ \E p \in Procs, u \in Users, l \in Levels, img \in Images :
            SubmitStart(p, u, l, img)
    \/ \E p \in Procs, m \in Users, id \in Ids,
          accept \in BOOLEAN, reason \in Reasons :
            DecideStart(p, m, id, accept, reason)

\* A handler performs its next store operation, which succeeds or not.
Step(ok) ==
    \/ \E p \in Procs : IsImageUploaded(p)
    \/ \E p \in Procs : ForceWrite(p, ok)
    \/ \E p \in Procs : ForceInsert(p, ok)
    \/ \E p \in Procs : PendingWrite(p, ok)
    \/ \E p \in Procs : PendingInsert(p, ok)
    \/ \E p \in Procs : DecideRename(p, ok)
    \/ \E p \in Procs : DecideRemove(p, ok)
    \/ \E p \in Procs : DecideUpdate(p, ok)

\* The server: requests are handled concurrently and stores may fail.
Next ==
    \/ Arrive
    \/ \E ok \in BOOLEAN : Step(ok)

Spec == Init /\ [][Next]_vars

\* The server while no store operation fails.
NextNoFaults ==
    \/ Arrive
    \/ Step(TRUE)

SpecNoFaults == Init /\ [][NextNoFaults]_vars

\* The server while no store operation fails and requests come one at a
\* time, each after the previous one was answered.
NextSerial ==
    \/ Quiescent /\ Arrive
    \/ Step(TRUE)

SpecSerial == Init /\ [][NextSerial]_vars

\* A privileged administrative action outside the handlers makes a User a
\* Verified user (the role column of the users table is written by no
\* handler).
Promote(u) ==
    /\ Quiescent
    /\ users[u].role = "User"
    /\ users' = [users EXCEPT ![u].role = "Verified"]
    /\ last' = NoResponse
    /\ UNCHANGED <<uploads, thumbnails, pending, procs, submits>>

\* The server of SpecSerial, with accounts promoted between requests.
NextPromote ==
    \/ NextSerial
    \/ \E u \in Users : Promote(u)

SpecPromote == Init /\ [][NextPromote]_vars

\* The server while requests come one at a time and stores may fail.
NextSerialFaults ==
    \/ Quiescent /\ Arrive
    \/ \E ok \in BOOLEAN : Step(ok)

SpecSerialFaults == Init /\ [][NextSerialFaults]_vars

\* ------------------------------------------------------------------- login
\* Rows the users table may hold in one behaviour.
MaxUsers == 5

\* account_id of a LoginPayload: the accounts of the three users and one
\* that has no user yet.
Accounts == 1 .. 4

\* auth::Verdict, as ArgonClient::verify returns it.
Verdicts == {"Strong", "Weak", "Invalid"}

\* login(), up to find_or_create_user: 500 when the verification request
\* fails (`verifyok` false), 401 for a verdict that is not Strong, 0 when the
\* handler goes on.
LoginAnswer(verdict, verifyok) ==
    IF ~verifyok THEN 500
    ELSE IF verdict # "Strong" THEN 401
    ELSE 0

\* login(): the verdict is Strong and find_or_create_user is called.
LoginStart(p, a, verdict) ==
    /\ Free(p)
    /\ LoginAnswer(verdict, TRUE) = 0
    /\ Cardinality(DOMAIN users)
         + Cardinality({q \in Procs : procs[q].op = "login"}) < MaxUsers
    /\ Goto(p, [Idle EXCEPT !.op = "login", !.account = a], "find_user")
    /\ UNCHANGED <<users, uploads, thumbnails, pending, submits>>

\* SELECT * FROM users WHERE account_id = $1, fetch_optional: the id of the
\* first such row, 0 when there is none.
FindUser(a) ==
    IF \E u \in DOMAIN users : users[u].account_id = a
    THEN CHOOSE u \in DOMAIN users :
            /\ users[u].account_id = a
            /\ \A v \in DOMAIN users : users[v].account_id = a => u <= v
    ELSE 0

\* find_or_create_user(), the SELECT: the user found is returned (200), and
\* when there is none the handler goes on to the INSERT.
LoginFind(p, ok) ==
    /\ procs[p].pc = "find_user"
    /\  IF ~ok THEN Return(p, procs[p], 500, TRUE, 0)
        ELSE IF FindUser(procs[p].account) # 0
             THEN Return(p, [procs[p] EXCEPT !.user = FindUser(procs[p].account)],
                         200, FALSE, 0)
        ELSE Goto(p, procs[p], "create_user")
    /\ UNCHANGED <<users, uploads, thumbnails, pending, submits>>

\* find_or_create_user(), INSERT INTO users (account_id, username, role)
\* VALUES ($1, $2, 'user') RETURNING *.
LoginCreate(p, ok) ==
    /\ procs[p].pc = "create_user"
    /\ LET id == Cardinality(DOMAIN users) + 1 IN
        IF ok
        THEN /\ users' = users @@ (id :> [account_id |-> procs[p].account,
                                          role |-> "User"])
             /\ Return(p, [procs[p] EXCEPT !.user = id], 200, FALSE, 0)
        ELSE /\ Return(p, procs[p], 500, TRUE, 0)
             /\ UNCHANGED users
    /\ UNCHANGED <<uploads, thumbnails, pending, submits>>

\* The login route alone: logins are handled concurrently and the record
\* store may fail.
NextLogin ==
    \/ \E p \in Procs, a \in Accounts, verdict \in Verdicts : LoginStart(p, a, verdict)
    \/ \E p \in Procs, ok \in BOOLEAN : LoginFind(p, ok)
    \/ \E p \in Procs, ok \in BOOLEAN : LoginCreate(p, ok)

SpecLogin == Init /\ [][NextLogin]_vars


\* ------------------------------------------------------------------ claims
Rows == 1 .. Len(uploads)
IsPending(i) == uploads[i].accepted = FALSE /\ uploads[i].accepted_time = Null
IsTerminal(i) == ~IsPending(i)
Privileged(u) == RoleOf(u) \in {"Admin", "Moderator"}
\* The pending rows of user u for level l.
PendingRows(u, l) ==
    {i \in Rows : IsPending(i) /\ uploads[i].user_id = u /\ uploads[i].level_id = l}
\* Task p takes the step.
Took(p) == procs'[p] # procs[p]
\* Task p takes the step and its handler returns.
Returned(p) == procs[p].pc # "idle" /\ procs'[p].pc = "idle"
\* The step inserts one row and changes no other.
Inserted ==
    /\ Len(uploads') = Len(uploads) + 1
    /\ \A i \in Rows : uploads'[i] = uploads[i]

\* C1: whenever no request is being handled, the canonical path of every
\* level with an accepted upload holds the bytes submitted with its active
\* upload (the accepted upload with the greatest upload_time).
CanonicalHoldsActive ==
    Quiescent =>
        \A l \in Levels :
            ActiveUpload(l) # 0 => thumbnails[l] = uploads[ActiveUpload(l)].bytes

\* C2: right after a decision accepted upload X, get_upload_info of its level
\* returns X's submitter and the canonical path holds X's bytes.
AcceptedIsResolved ==
    (last.op = "decide" /\ last.status = 200 /\ last.accept) =>
        /\ GetUploadInfo(last.level) = uploads[last.id].user_id
        /\ thumbnails[last.level] = uploads[last.id].bytes

\* C3: a User or Verified submitter never has two pending rows for one level.
OnePendingPerUserLevel ==
    \A i, j \in Rows :
        (/\ i # j
         /\ IsPending(i) /\ IsPending(j)
         /\ uploads[i].user_id = uploads[j].user_id
         /\ uploads[i].level_id = uploads[j].level_id)
        => RoleOf(uploads[i].user_id) \notin {"User", "Verified"}

\* C4: no step changes a terminal row, and no step of a decision on a row
\* that is terminal changes an artifact.
TerminalRowsFrozen ==
    [][/\ \A i \in Rows : IsTerminal(i) => uploads'[i] = uploads[i]
       /\ \A p \in Procs :
            (procs[p].op = "decide" /\ Took(p) /\ IsTerminal(procs[p].id))
            => UNCHANGED <<thumbnails, pending>>]_vars

\* C5: a decision by a Moderator or Admin on a row that is terminal is
\* answered 409, while one on an id without a row is answered 404.
DecideOnTerminalIsConflict ==
    /\ \A m \in Users, id \in Rows :
        (MayDecide(m) /\ IsTerminal(id)) => DecideAnswer(m, id, TRUE) = 409
    /\ \A m \in Users :
        MayDecide(m) => DecideAnswer(m, Len(uploads) + 1, TRUE) = 404

\* C6: a valid submission by an Admin or a Moderator is never answered 409
\* and never goes to the pending queue: it writes its bytes to the canonical
\* path of the level, then inserts one accepted row and is answered 201; the
\* only other answer is the 500 of a failed store operation.
PrivilegedSubmitPublishes ==
    [][\A p \in Procs :
        LET q == procs[p]
            r == procs'[p]
        IN  /\ \A u \in Users, l \in Levels :
                Privileged(u) => SubmitAnswer(u, l, "ok") = 0
            /\ (r.op = "submit" /\ Privileged(r.user))
               => r.pc \in {"force_write", "force_insert"}
            /\ (q.op = "submit" /\ Privileged(q.user) /\ Took(p) /\ ~Returned(p))
               => thumbnails'[q.level] = q.data
            /\ (q.op = "submit" /\ Privileged(q.user) /\ Returned(p))
               => \/ /\ last'.status = 201 /\ ~last'.failed
                     /\ Inserted
                     /\ uploads'[Len(uploads')].accepted
                     /\ uploads'[Len(uploads')].user_id = q.user
                     /\ uploads'[Len(uploads')].level_id = q.level
                     /\ uploads'[Len(uploads')].bytes = q.data
                  \/ /\ last'.status = 500 /\ last'.failed
                     /\ uploads' = uploads]_vars

\* C6, the case: an Admin's submission is answered 201 for a level that had
\* an accepted upload already, and the canonical path holds the new bytes.
PrivilegedReplaced ==
    /\ last.op = "submit" /\ last.status = 201
    /\ RoleOf(last.user) = "Admin"
    /\ Cardinality(AcceptedOf(last.level)) >= 2
    /\ thumbnails[last.level] = last.data

\* C7: a valid submission by a Verified user publishes when
\* is_image_uploaded finds no canonical artifact (the canonical path is
\* written, an accepted row inserted) and otherwise is enqueued (the pending
\* path is written, an unaccepted row inserted) without a write to the
\* canonical path; the only other answer is the 500 of a failed store
\* operation.
VerifiedSubmitPolicy ==
    [][\A p \in Procs :
        LET q == procs[p]
            r == procs'[p]
            mine == q.op = "submit" /\ RoleOf(q.user) = "Verified" /\ Took(p)
        IN  /\ (q.pc = "idle" /\ r.op = "submit" /\ RoleOf(r.user) = "Verified")
               => r.pc = "is_image_uploaded"
            /\ (mine /\ q.pc = "is_image_uploaded")
               => /\ thumbnails[q.level] = NoFile => r.pc = "force_write"
                  /\ thumbnails[q.level] # NoFile => r.pc = "pending_write"
                  /\ UNCHANGED <<thumbnails, pending, uploads>>
            /\ (mine /\ q.pc = "force_write" /\ ~Returned(p))
               => thumbnails'[q.level] = q.data /\ r.pc = "force_insert"
            /\ (mine /\ q.pc = "force_insert")
               => \/ /\ last'.status = 200 /\ Inserted
                     /\ uploads'[Len(uploads')].accepted
                     /\ uploads'[Len(uploads')].user_id = q.user
                     /\ uploads'[Len(uploads')].bytes = q.data
                  \/ last'.status = 500 /\ last'.failed /\ uploads' = uploads
            /\ (mine /\ q.pc \in {"pending_write", "pending_insert"})
               => UNCHANGED thumbnails
            /\ (mine /\ q.pc = "pending_write" /\ ~Returned(p))
               => /\ pending'[<<q.user, q.level>>] = q.data
                  /\ r.pc = "pending_insert"
            /\ (mine /\ q.pc = "pending_insert")
               => \/ /\ last'.status = 202 /\ Inserted
                     /\ ~uploads'[Len(uploads')].accepted
                     /\ uploads'[Len(uploads')].accepted_time = Null
                     /\ uploads'[Len(uploads')].user_id = q.user
                     /\ uploads'[Len(uploads')].bytes = q.data
                  \/ last'.status = 500 /\ last'.failed /\ uploads' = uploads]_vars

\* C7, the case: a Verified user whose earlier submission was published is
\* answered 202 for the same level, and the canonical path still holds the
\* bytes of the earlier submission.
VerifiedPublishedThenEnqueued ==
    /\ last.op = "submit" /\ last.status = 202
    /\ RoleOf(last.user) = "Verified"
    /\ \E i \in Rows :
        /\ uploads[i].accepted /\ uploads[i].user_id = last.user
        /\ uploads[i].level_id = last.level
        /\ thumbnails[last.level] = uploads[i].bytes
    /\ pending[<<last.user, last.level>>] = last.data

\* C8: no step of a submission by a user of role User writes a canonical
\* path or inserts an accepted row; it writes the pending path of (user,
\* level) only, and is answered 202 with one unaccepted row inserted, or 500.
UserNeverPublishes ==
    [][\A p \in Procs :
        LET q == procs[p]
            r == procs'[p]
            mine == q.op = "submit" /\ RoleOf(q.user) = "User" /\ Took(p)
        IN  /\ (r.op = "submit" /\ RoleOf(r.user) = "User")
               => r.pc \in {"pending_write", "pending_insert"}
            /\ mine
               => /\ UNCHANGED thumbnails
                  /\ \A k \in DOMAIN pending :
                        k # <<q.user, q.level>> => pending'[k] = pending[k]
                  /\ \/ uploads' = uploads
                     \/ /\ Inserted
                        /\ ~uploads'[Len(uploads')].accepted
                        /\ uploads'[Len(uploads')].accepted_time = Null
                        /\ last'.status = 202
            /\ (mine /\ Returned(p))
               => \/ last'.status = 202 /\ Inserted
                  \/ last'.status = 500 /\ last'.failed /\ uploads' = uploads]_vars

\* C8, the case: a submission by a user of role User was enqueued.
UserEnqueued ==
    /\ last.op = "submit" /\ last.status = 202
    /\ RoleOf(last.user) = "User"
    /\ \E i \in Rows : IsPending(i) /\ uploads[i].bytes = last.data
    /\ pending[<<last.user, last.level>>] = last.data

\* C9: when requests come one at a time and no store fails, a User or
\* Verified submitter with a pending row for a level has exactly one, its
\* bytes are at the pending path, and any further submission for that level
\* is answered 409 and takes no step.
SecondSubmitConflicts ==
    \A u \in Users, l \in Levels :
        (Quiescent /\ RoleOf(u) \in {"User", "Verified"} /\ PendingRows(u, l) # {})
        => /\ Cardinality(PendingRows(u, l)) = 1
           /\ \A i \in PendingRows(u, l) : pending[<<u, l>>] = uploads[i].bytes
           /\ \A img \in Images : SubmitAnswer(u, l, img) = 409
           /\ \A p \in Procs, img \in Images : ~ENABLED SubmitStart(p, u, l, img)

\* C9, the case: a Verified submitter was enqueued, nothing was decided
\* since, and the next submission would be answered 409.
VerifiedHasPending ==
    /\ Quiescent
    /\ last.op = "submit" /\ last.status = 202
    /\ RoleOf(last.user) = "Verified"
    /\ PendingRows(last.user, last.level) # {}
    /\ SubmitAnswer(last.user, last.level, "ok") = 409

\* C10 as stated: a row is accepted if and only if its accepted_time is set.
AcceptedIffAcceptedTime ==
    \A i \in Rows : uploads[i].accepted <=> uploads[i].accepted_time # Null

\* C10, amended: an accepted row has its accepted_time set, and a row has
\* accepted_time set exactly when it has accepted_by set (a rejected row has
\* both while accepted = false).
AcceptedHasAcceptedTime ==
    \A i \in Rows :
        /\ uploads[i].accepted => uploads[i].accepted_time # Null
        /\ uploads[i].accepted_time # Null <=> uploads[i].accepted_by # Null

\* C10, the case: one row was accepted at insert, another by a decision.
AcceptedBothWays ==
    /\ \E i \in Rows : uploads[i].accepted /\ uploads[i].accepted_by = uploads[i].user_id
    /\ \E i \in Rows : uploads[i].accepted /\ uploads[i].accepted_by # uploads[i].user_id

\* C11: every user is given the listing of the pending queue filtered by
\* their own id, whatever their role, and a user who is neither Moderator
\* nor Admin is refused the listing of another user's queue.
OwnQueueListable ==
    /\ \A u \in Users : GetPendingUploads(u, ByUser(u), TRUE).status = 200
    /\ \A u, v \in Users :
        (u # v /\ ~Privileged(u))
        => GetPendingUploads(u, ByUser(v), TRUE).status = 403

\* C12: the unfiltered and the by-level listings are given to every Moderator
\* and Admin (200 with the pending rows that match, latest first; 500 when
\* the query fails) and refused to every User and Verified caller (403 and
\* no rows).
PrivilegedListing ==
    \A u \in Users, f \in {All} \cup {ByLevel(l) : l \in Levels} :
        LET granted == GetPendingUploads(u, f, TRUE)
            failed == GetPendingUploads(u, f, FALSE)
        IN  /\ Privileged(u)
               => /\ granted.status = 200
                  /\ {granted.rows[k] : k \in DOMAIN granted.rows} = PendingMatching(f)
                  /\ Len(granted.rows) = Cardinality(PendingMatching(f))
                  /\ failed.status = 500 /\ failed.rows = <<>>
            /\ ~Privileged(u)
               => /\ granted.status = 403 /\ granted.rows = <<>>
                  /\ failed.status = 403 /\ failed.rows = <<>>

\* C12, the case: with a row pending, the privileged account is given the
\* unfiltered listing with that row and the Verified one is refused.
ListingGrantedAndRefused ==
    /\ \E i \in Rows : IsPending(i)
    /\ \E u \in Users :
        /\ Privileged(u)
        /\ GetPendingUploads(u, All, TRUE).status = 200
        /\ Len(GetPendingUploads(u, All, TRUE).rows) >= 1
    /\ \E u \in Users :
        /\ RoleOf(u) = "Verified"
        /\ GetPendingUploads(u, All, TRUE).status = 403

\* C13: a decision requested by a user who is neither Moderator nor Admin is
\* answered 403 whatever the id and the state of the stores, its handler
\* takes no step, and no decision in flight belongs to such a user: no row
\* and no artifact changes and no purge is triggered on its behalf.
UnprivilegedDecideForbidden ==
    /\ \A m \in Users, id \in Ids :
        ~Privileged(m)
        => /\ \A dbok \in BOOLEAN : DecideAnswer(m, id, dbok) = 403
           /\ \A p \in Procs, accept \in BOOLEAN, reason \in Reasons :
                ~ENABLED DecideStart(p, m, id, accept, reason)
    /\ \A p \in Procs : procs[p].op = "decide" => Privileged(procs[p].user)
    /\ last.op = "decide" => Privileged(last.user)

\* C13, the case: a row is pending with its file in place, and the decision
\* of its own submitter on it is answered 403.
UnprivilegedDecideOnPending ==
    \E i \in Rows :
        /\ IsPending(i)
        /\ pending[<<uploads[i].user_id, uploads[i].level_id>>] # NoFile
        /\ ~Privileged(uploads[i].user_id)
        /\ DecideAnswer(uploads[i].user_id, i, TRUE) = 403

\* C14: a submission whose body does not decode, or is not 1920x1080, is
\* answered 400 for every submitter and every state of the stores, and its
\* handler takes no step.
InvalidImageIsBadRequest ==
    \A u \in Users, l \in Levels, img \in Images \ {"ok"} :
        /\ SubmitAnswer(u, l, img) = 400
        /\ \A p \in Procs : ~ENABLED SubmitStart(p, u, l, img)

\* C15: right after a decision accepted upload X, the thumbnail of its level
\* fetched at full resolution is the bytes the submission of X wrote.
RoundTrip ==
    (last.op = "decide" /\ last.status = 200 /\ last.accept)
    => /\ HandleImage(last.level, "high", TRUE).status = 200
       /\ HandleImage(last.level, "high", TRUE).body = uploads[last.id].bytes

\* C16: no step of an enqueuing submission and no step of a rejecting
\* decision changes the bytes at a canonical path or what get_upload_info
\* returns for a level.
ResolveChangesOnlyByPublishOrAccept ==
    [][\A p \in Procs :
        (/\ Took(p)
         /\ \/ procs[p].pc \in {"pending_write", "pending_insert"}
            \/ procs[p].op = "decide" /\ ~procs[p].accept)
        => /\ thumbnails' = thumbnails
           /\ \A l \in Levels :
                /\ GetUploadInfo(l)' = GetUploadInfo(l)
                /\ ActiveUpload(l)' = ActiveUpload(l)]_vars

\* C17: no step removes a row or changes the id of one, so the ids only
\* grow; a submission answered 200, 201 or 202 inserts exactly one row in
\* the step that answers it, and no other step of a submission inserts one.
AppendOnlyHistory ==
    [][/\ Len(uploads') >= Len(uploads)
       /\ \A i \in Rows : uploads'[i].id = uploads[i].id
       /\ \A i \in 1 .. Len(uploads') : uploads'[i].id = i
       /\ \A p \in Procs :
            (procs[p].op = "submit" /\ Took(p))
            => IF Returned(p) /\ last'.status \in {200, 201, 202}
               THEN Inserted
               ELSE uploads' = uploads
       /\ \A p \in Procs :
            (procs[p].op = "decide" /\ Took(p)) => Len(uploads') = Len(uploads)]_vars

\* C17, the case: two submissions inserted a row each and one was rejected
\* since: both rows are still there.
HistoryKeptAfterReject ==
    /\ Len(uploads) = 2
    /\ \E i \in Rows : ~uploads[i].accepted /\ uploads[i].accepted_time # Null

\* C18: for a level without an accepted row, the image handlers (at every
\* resolution) and the info handler answer 404, whether or not the query
\* succeeds, whatever file is at the canonical path and whatever pending or
\* rejected rows the level has.
NoAcceptedIsNotFound ==
    \A l \in Levels :
        AcceptedOf(l) = {}
        => \A dbok \in BOOLEAN :
            /\ \A res \in Resolutions :
                /\ HandleImage(l, res, dbok).status = 404
                /\ HandleImageMain(l, res, dbok).status = 404
            /\ ThumbnailInfoHandler(l, dbok).status = 404

\* C18, the case: a level has a file at its canonical path and a row that is
\* not accepted, but no accepted row.
CanonicalWithoutAccepted ==
    \E l \in Levels :
        /\ thumbnails[l] # NoFile
        /\ AcceptedOf(l) = {}
        /\ \E i \in Rows : uploads[i].level_id = l
        /\ HandleImage(l, "high", TRUE).status = 404

\* C19: no step of a submission by a Verified user changes the bytes of a
\* canonical path that holds a file.
VerifiedNeverReplaces ==
    [][\A p \in Procs :
        (/\ procs[p].op = "submit" /\ RoleOf(procs[p].user) = "Verified"
         /\ Took(p)
         /\ thumbnails[procs[p].level] # NoFile)
        => thumbnails'[procs[p].level] = thumbnails[procs[p].level]]_vars

\* C20: the submission of a valid image by a Verified user for a level
\* without a canonical artifact is not answered 409, whether or not there is
\* a file at the pending path of (user, level): its handler goes on to
\* publish.
VerifiedPublishesDespitePending ==
    \A u \in Users, l \in Levels :
        (RoleOf(u) = "Verified" /\ thumbnails[l] = NoFile)
        => /\ SubmitAnswer(u, l, "ok") = 0
           /\ VerifiedRoute(l) = "force_write"

\* C21: a decision whose artifact step fails (the rename of an accept, the
\* remove_file of a reject) is answered 500 in that step, with no row and no
\* artifact changed and no purge: a row that was pending is still pending.
\* The decision goes on to accept_upload only after the artifact step moved
\* or removed a file that was at the pending path.
ArtifactFailureLeavesPending ==
    [][\A p \in Procs :
        LET q == procs[p]
            r == procs'[p]
            old == <<q.owner, q.level>>
            artifact == q.op = "decide" /\ q.pc \in {"rename", "remove_file"} /\ Took(p)
        IN  /\ (artifact /\ Returned(p))
               => /\ last'.status = 500 /\ last'.failed /\ last'.purged = 0
                  /\ UNCHANGED <<uploads, thumbnails, pending>>
                  /\ IsPending(q.id)
                     => /\ uploads'[q.id].accepted = FALSE
                        /\ uploads'[q.id].accepted_time = Null
            /\ (artifact /\ ~Returned(p))
               => /\ r.pc = "accept_upload"
                  /\ pending[old] # NoFile /\ pending'[old] = NoFile
                  /\ uploads' = uploads]_vars

\* C21, the case: a decision was answered 500 at its artifact step: the row
\* is pending and its file is still at the pending path.
ArtifactStepFailed ==
    /\ last.op = "decide" /\ last.status = 500 /\ last.failed
    /\ IsPending(last.id)
    /\ pending[<<uploads[last.id].user_id, uploads[last.id].level_id>>] = uploads[last.id].bytes
    /\ thumbnails[last.level] = NoFile

\* C22: a step of a decision on a pending row in which the store operation
\* does not fail never ends the decision with an error: when the decision
\* returns, it is answered 200 and the row is terminal.
PendingRowIsDecidable ==
    [][\A p \in Procs :
        LET q == procs[p] IN
        (/\ q.op = "decide" /\ IsPending(q.id)
         /\ \/ DecideRename(p, TRUE)
            \/ DecideRemove(p, TRUE)
            \/ DecideUpdate(p, TRUE))
        => (Returned(p)
            => /\ last'.status = 200
               /\ uploads'[q.id].accepted_time # Null)]_vars

\* C23: a submission writes its artifact once and then inserts its row once,
\* in that order: the write step leaves the table unchanged and leads to the
\* insert step, the insert step leaves the artifacts unchanged and ends the
\* request; a submission answered 200, 201 or 202 inserted its row in that
\* last step, and one whose insert failed is answered 500 with the written
\* artifact in place and no row for its bytes.
WriteThenInsert ==
    [][\A p \in Procs :
        LET q == procs[p]
            r == procs'[p]
            mine == q.op = "submit" /\ Took(p)
            path == IF q.pc \in {"force_write", "force_insert"}
                    THEN thumbnails ELSE pending
            path2 == IF q.pc \in {"force_write", "force_insert"}
                     THEN thumbnails' ELSE pending'
            key == IF q.pc \in {"force_write", "force_insert"}
                   THEN q.level ELSE <<q.user, q.level>>
        IN  /\ (mine /\ q.pc \in {"force_write", "pending_write"})
               => /\ uploads' = uploads
                  /\ IF Returned(p)
                     THEN /\ last'.status = 500 /\ last'.failed
                          /\ UNCHANGED <<thumbnails, pending>>
                     ELSE /\ path2[key] = q.data
                          /\ r.pc = IF q.pc = "force_write" THEN "force_insert"
                                                            ELSE "pending_insert"
            /\ (mine /\ q.pc \in {"force_insert", "pending_insert"})
               => /\ Returned(p)
                  /\ UNCHANGED <<thumbnails, pending>>
                  /\ \/ /\ last'.status \in {200, 201, 202} /\ ~last'.failed
                        /\ Inserted
                        /\ uploads'[Len(uploads')].bytes = q.data
                        /\ \A i \in Rows : uploads[i].bytes # q.data
                     \/ /\ last'.status = 500 /\ last'.failed
                        /\ uploads' = uploads
                        /\ \A i \in Rows : uploads[i].bytes # q.data
            /\ (r.op = "submit" /\ r.pc \in {"force_insert", "pending_insert"} /\ Took(p))
               => q.pc \in {"force_write", "pending_write"}
            /\ (mine /\ Returned(p) /\ last'.status \in {200, 201, 202})
               => q.pc \in {"force_insert", "pending_insert"}]_vars

\* C23, the case: the write of a direct publish succeeded and its insert
\* failed: the artifact is at the canonical path and no row has its bytes.
OrphanedArtifact ==
    /\ last.op = "submit" /\ last.status = 500 /\ last.failed
    /\ thumbnails[last.level] = last.data
    /\ \A i \in Rows : uploads[i].bytes # last.data

\* C24: the rename of an accept moves the file at the pending path to the
\* canonical path and changes no row; when accept_upload then fails the
\* decision is answered 500, without a purge, and that step changes no row
\* and no artifact.
FailedUpdateAfterRename ==
    [][\A p \in Procs :
        LET q == procs[p]
            r == procs'[p]
            old == <<q.owner, q.level>>
        IN  /\ (q.op = "decide" /\ q.pc = "rename" /\ Took(p) /\ ~Returned(p))
               => /\ pending[old] # NoFile
                  /\ thumbnails'[q.level] = pending[old]
                  /\ pending'[old] = NoFile
                  /\ uploads' = uploads
                  /\ r.pc = "accept_upload"
            /\ (q.op = "decide" /\ q.pc = "accept_upload" /\ q.accept /\ Took(p))
               => /\ Returned(p)
                  /\ \/ last'.status = 200 /\ ~last'.failed /\ uploads'[q.id].accepted
                     \/ /\ last'.status = 500 /\ last'.failed /\ last'.purged = 0
                        /\ UNCHANGED <<uploads, thumbnails, pending>>]_vars

\* C24, the case: an accept was answered 500 after its rename: the bytes of
\* the submission are at the canonical path, there is no file at the pending
\* path and the row is pending.
RenamedButPending ==
    /\ last.op = "decide" /\ last.accept /\ last.status = 500 /\ last.failed
    /\ IsPending(last.id)
    /\ thumbnails[last.level] = uploads[last.id].bytes
    /\ pending[<<uploads[last.id].user_id, last.level>>] = NoFile

\* C25: a decision purges only in the step that ends it with 200 after an
\* accept: that step is its accept_upload, which follows its rename, the
\* level purged is the level of the row, and the row is then accepted; a
\* rejection and a failed decision purge nothing.
PurgeAfterAccept ==
    [][\A p \in Procs :
        LET q == procs[p]
            r == procs'[p]
            old == <<q.owner, q.level>>
        IN  /\ (q.op = "decide" /\ Took(p))
               => /\ last'.purged # 0
                     <=> (Returned(p) /\ q.accept /\ last'.status = 200)
                  /\ last'.purged # 0
                     => /\ q.pc = "accept_upload"
                        /\ last'.purged = q.level
                        /\ q.level = uploads[q.id].level_id
                        /\ uploads'[q.id].accepted
                        /\ uploads'[q.id].accepted_by = q.user
            /\ (q.pc = "idle" /\ r.op = "decide")
               => r.pc = IF r.accept THEN "rename" ELSE "remove_file"
            /\ (q.op = "decide" /\ r.pc = "accept_upload" /\ Took(p))
               => /\ q.pc = IF q.accept THEN "rename" ELSE "remove_file"
                  /\ q.accept => thumbnails'[q.level] = pending[old]]_vars

\* C25, the case: an accept was answered 200 and purged the level of its row.
AcceptedAndPurged ==
    /\ last.op = "decide" /\ last.accept /\ last.status = 200
    /\ last.purged = uploads[last.id].level_id
    /\ uploads[last.id].accepted

\* C26: the image_path of every accepted row is the canonical path of its
\* level.
AcceptedRowsAtCanonicalPath ==
    \A i \in Rows :
        uploads[i].accepted => uploads[i].image_path = ThumbnailPath(uploads[i].level_id)

\* C27: a listing that is granted returns every row with accepted = false
\* and accepted_time null that matches its filter, each once, and no other
\* row, latest upload_time first; a privileged caller is granted it (for
\* another user's queue, a level or all rows) also when no row matches.
ListingIsPendingLatestFirst ==
    \A u \in Users, f \in PendingFilters :
        LET res == GetPendingUploads(u, f, TRUE)
            Matches(i) ==
                /\ f.kind = "ByLevel" => uploads[i].level_id = f.arg
                /\ f.kind = "ByUser" => uploads[i].user_id = f.arg
        IN  /\ res.status = 200
               => /\ \A k \in DOMAIN res.rows :
                        /\ res.rows[k] \in Rows
                        /\ IsPending(res.rows[k])
                        /\ Matches(res.rows[k])
                  /\ \A i \in Rows :
                        (IsPending(i) /\ Matches(i))
                        => \E k \in DOMAIN res.rows : res.rows[k] = i
                  /\ \A j, k \in DOMAIN res.rows :
                        j < k => uploads[res.rows[j]].upload_time
                                    > uploads[res.rows[k]].upload_time
            /\ (Privileged(u) /\ f # ByUser(u)) => res.status = 200

\* C27, the case: two rows are pending and the unfiltered listing returns
\* the later one first.
TwoPendingListed ==
    \E u \in Users :
        LET res == GetPendingUploads(u, All, TRUE) IN
        /\ res.status = 200
        /\ Len(res.rows) = 2
        /\ res.rows[1] = 2 /\ res.rows[2] = 1

\* C28: when the query fails, the thumbnail and the info of a level that has
\* an accepted upload and its file, and the decision of a Moderator or Admin
\* on a pending row, are answered 500.
StoreFailureIsServerError ==
    /\ \A l \in Levels :
        (ActiveUpload(l) # 0 /\ thumbnails[l] # NoFile)
        => /\ HandleImage(l, "high", FALSE).status = 500
           /\ ThumbnailInfoHandler(l, FALSE).status = 500
    /\ \A m \in Users, i \in Rows :
        (MayDecide(m) /\ IsPending(i)) => DecideAnswer(m, i, FALSE) = 500

\* C29: no two rows of the users table have the same account_id, a row
\* added by a login has role User, and a login whose verdict is Weak or
\* Invalid is answered 401 and takes no step.
OneUserPerAccount ==
    /\ \A u, v \in DOMAIN users :
        users[u].account_id = users[v].account_id => u = v
    /\ \A u \in DOMAIN users : u \notin Users => users[u].role = "User"
    /\ \A verdict \in Verdicts \ {"Strong"} :
        /\ LoginAnswer(verdict, TRUE) = 401
        /\ \A p \in Procs, a \in Accounts : ~ENABLED LoginStart(p, a, verdict)

\* C30: no step removes the file at a canonical path, and after every step
\* each level with an accepted row has a file at its canonical path.
AcceptedHasCanonicalArtifact ==
    [][/\ \A l \in Levels : thumbnails[l] # NoFile => thumbnails'[l] # NoFile
       /\ \A i \in 1 .. Len(uploads') :
            uploads'[i].accepted => thumbnails'[uploads'[i].level_id] # NoFile]_vars

\* C30, the case: a store operation has just failed while another request
\* is being handled, and the level has an accepted row and its file.
AcceptedWithFileAfterFailure ==
    /\ last.failed
    /\ ~Quiescent
    /\ \E i \in Rows : uploads[i].accepted /\ thumbnails[uploads[i].level_id] # NoFile

\* C31: whenever no request is being handled, every pending row has a file
\* at the pending path of its user and level.
PendingRowHasFile ==
    Quiescent =>
        \A i \in Rows :
            IsPending(i) => pending[<<uploads[i].user_id, uploads[i].level_id>>] # NoFile

\* C32: whenever no request is being handled, a file at the pending path of
\* a user and level has a pending row of that user and level, so a
\* submission is answered 409 only when such a row exists.
PendingFileHasRow ==
    Quiescent =>
        \A u \in Users, l \in Levels :
            /\ pending[<<u, l>>] # NoFile => PendingRows(u, l) # {}
            /\ SubmitAnswer(u, l, "ok") = 409 => PendingRows(u, l) # {}

\* C33: the file a decision on row X renames or removes holds the bytes the
\* submission that inserted X wrote.
DecideMovesOwnArtifact ==
    [][\A p \in Procs :
        LET q == procs[p]
            old == <<q.owner, q.level>>
        IN  (/\ q.op = "decide" /\ q.pc \in {"rename", "remove_file"}
             /\ Took(p) /\ pending'[old] # pending[old])
            => pending[old] = uploads[q.id].bytes]_vars

\* C34: a decision is answered 200 only for a row that no other decision has
\* made terminal: of the decisions running on one pending id at most one
\* succeeds, and the row keeps the values of that one.
OneDecisionSucceeds ==
    [][\A p \in Procs :
        LET q == procs[p] IN
        (q.op = "decide" /\ Returned(p) /\ last'.status = 200)
        => IsPending(q.id)]_vars

\* C35 as stated: an operation that wrote the canonical path of a level (a
\* direct publish after its write, an accept after its rename) purges that
\* level in the step that ends it, whether or not its insert or update
\* succeeds.
PurgeAfterEveryChange ==
    [][\A p \in Procs :
        LET q == procs[p] IN
        (/\ Returned(p)
         /\ \/ q.op = "submit" /\ q.pc = "force_insert"
            \/ q.op = "decide" /\ q.pc = "accept_upload" /\ q.accept)
        => last'.purged = q.level]_vars

\* C35, amended: an operation that wrote the canonical path of a level
\* purges that level in the step that ends it exactly when its insert or
\* update succeeds; when that fails it is answered 500 and purges nothing,
\* and no other step of a request purges.
PurgeAfterRecordedChange ==
    [][\A p \in Procs :
        LET q == procs[p]
            changed == \/ q.op = "submit" /\ q.pc = "force_insert"
                       \/ q.op = "decide" /\ q.pc = "accept_upload" /\ q.accept
        IN  /\ (Returned(p) /\ changed)
               => \/ /\ ~last'.failed /\ last'.purged = q.level
                     /\ IF q.op = "submit"
                        THEN Len(uploads') = Len(uploads) + 1
                        ELSE uploads'[q.id].accepted
                  \/ /\ last'.failed /\ last'.status = 500 /\ last'.purged = 0
                     /\ uploads' = uploads
            /\ (Took(p) /\ ~(Returned(p) /\ changed)) => last'.purged = 0]_vars

\* C35, the case: a direct publish replaced the bytes at the canonical path
\* of a level that had a file and purged the level.
ReplacedAndPurged ==
    /\ last.op = "submit" /\ last.purged = last.level /\ last.purged # 0
    /\ thumbnails[last.level] = last.data
    /\ \E i \in Rows :
        /\ uploads[i].level_id = last.level
        /\ uploads[i].bytes # last.data
        /\ uploads[i].accepted

====
